---- MODULE Spec2Model ----
(***************************************************************************)
(* Model of the TBO Holidays SDK request executor                          *)
(* (src/src/clients/base-client.ts): the constructor's configuration       *)
(* defaults, makeRequest, the axios response interceptor with its retry    *)
(* loop, the backoff delay and createTBOError.                             *)
(*                                                                         *)
(* Optional JavaScript values are sequences: <<>> is undefined, <<v>> is   *)
(* the value v.                                                            *)
(***************************************************************************)
EXTENDS Integers, Sequences, FiniteSets, TLC

----------------------------------------------------------------------------
(* Bounds of the model *)

\* largest retry count a caller supplies in the constructor config
MaxSuppliedRetries == 3

----------------------------------------------------------------------------
(* Program constants *)

DefaultRetries == 3
DefaultTimeout == 30000
BackoffBaseMs == 1000

----------------------------------------------------------------------------
(* JavaScript helpers *)

None == <<>>
Some(v) == <<v>>

\* a || d on an optional number: undefined and 0 are falsy
OrDefault(opt, d) == IF opt = None \/ opt[1] = 0 THEN d ELSE opt[1]

----------------------------------------------------------------------------
(* The transport: what one HTTP attempt can answer *)

CallIds == {1, 2}

Endpoints == {"CountryList", "search"}
Methods == {"GET", "POST"}
\* a payload is the set of its keys
Payloads == {{}, {"CheckIn"}}

BusinessCodes == {200, 201, 401, 500}
ErrorStatuses == {401, 404, 422, 500, 503}

\* a response body in the service's envelope: Status.Code, no lower-case
\* status field, no data field
EnvelopeBody(c) == [Status |-> Some(c), status |-> None, data |-> None]
\* a JSON error body of a gateway in front of the service: {status: s}
GatewayBody(s) == [Status |-> None, status |-> Some(s), data |-> None]
NoBody == [Status |-> None, status |-> None, data |-> None]

\* axios' message of a rejected attempt
StatusMessage(s) ==
    CASE s = 401 -> "Request failed with status code 401"
      [] s = 404 -> "Request failed with status code 404"
      [] s = 422 -> "Request failed with status code 422"
      [] s = 500 -> "Request failed with status code 500"
      [] s = 503 -> "Request failed with status code 503"

\* an HTTP response with a 2xx status: the attempt resolves
SuccessOutcomes ==
    { [ok |-> TRUE, hasResponse |-> TRUE, status |-> 200,
       body |-> EnvelopeBody(c), message |-> "OK"] : c \in BusinessCodes }

\* an HTTP response outside 2xx, or no response at all: the attempt rejects
\* with an AxiosError that carries the request config
HttpErrorOutcomes ==
    { [ok |-> FALSE, hasResponse |-> TRUE, status |-> s,
       body |-> EnvelopeBody(s), message |-> StatusMessage(s)] : s \in ErrorStatuses }
    \cup
    { [ok |-> FALSE, hasResponse |-> TRUE, status |-> 503,
       body |-> GatewayBody(503), message |-> StatusMessage(503)] }

NetworkErrorOutcomes ==
    { [ok |-> FALSE, hasResponse |-> FALSE, status |-> 0,
       body |-> NoBody, message |-> "Network Error"] }

ErrorOutcomes == HttpErrorOutcomes \cup NetworkErrorOutcomes

----------------------------------------------------------------------------
(* TBOBaseClient *)

VARIABLES
    supplied,   \* the config object given to the constructor
    config,     \* this.config
    call,       \* per call of makeRequest: its position and its data
    env,        \* process.env
    fn,         \* the call of a synchronous helper: its name, argument and result
    task        \* the asynchronous helpers: their position, locals and result

vars == <<supplied, config, call, env, fn, task>>

\* a || d on an optional string: undefined and '' are falsy
StrOr(opt, d) == IF opt = None \/ opt[1] = "" THEN d ELSE opt[1]

DefaultBaseURL == "http://api.tbotechnology.in/TBOHolidays_HotelAPI"

\* process.env without any TBO_ variable
NoEnv ==
    [TBO_BASE_URL |-> None, TBO_USERNAME |-> None, TBO_PASSWORD |-> None,
     TBO_TIMEOUT |-> None, TBO_RETRIES |-> None]

\* the environments of the configuration guide; TBO_TIMEOUT and TBO_RETRIES
\* are written as the numbers their strings denote
Envs ==
    [TBO_BASE_URL : {None, Some("http://env.example/api")},
     TBO_USERNAME : {None, Some("env-user")},
     TBO_PASSWORD : {None, Some("env-pass")},
     TBO_TIMEOUT : {None, Some(60000)},
     TBO_RETRIES : {None, Some(5)}]

\* the config objects the request lifecycle is checked with: retries varies
SuppliedConfigs ==
    [retries : {None} \cup {Some(n) : n \in 0..MaxSuppliedRetries},
     timeout : {None},
     baseURL : {None},
     username : {Some("cfg-user")},
     password : {Some("cfg-pass")}]

\* every config object a caller passes, {} included
AllSuppliedConfigs ==
    [retries : {None} \cup {Some(n) : n \in 0..MaxSuppliedRetries},
     timeout : {None, Some(0), Some(5000)},
     baseURL : {None, Some("http://cfg.example/api")},
     username : {None, Some(""), Some("cfg-user")},
     password : {None, Some(""), Some("cfg-pass")}]

\* new TBOBaseClient() and new TBOBaseClient({})
EmptyConfig ==
    [retries |-> None, timeout |-> None, baseURL |-> None,
     username |-> None, password |-> None]

\* constructor: this.config
Constructor(cfg) ==
    [baseURL |-> StrOr(cfg.baseURL, DefaultBaseURL),
     username |-> StrOr(cfg.username, StrOr(env.TBO_USERNAME, "")),
     password |-> StrOr(cfg.password, StrOr(env.TBO_PASSWORD, "")),
     timeout |-> OrDefault(cfg.timeout, DefaultTimeout),
     retries |-> OrDefault(cfg.retries, DefaultRetries)]

\* the error object of a rejected attempt, as the interceptor sees it
AxiosError(o) ==
    [message |-> o.message,
     response |-> IF o.hasResponse
                  THEN Some([status |-> Some(o.status), data |-> o.body])
                  ELSE None,
     hasConfig |-> TRUE]

\* createTBOError applied to an AxiosError
createTBOError(error) ==
    [message |-> error.message,
     code |-> IF error.response = None THEN None ELSE error.response[1].status,
     response |-> IF error.response = None THEN NoBody ELSE error.response[1].data,
     hasResponse |-> error.response /= None]

\* createTBOError applied to a TBOError (makeRequest's catch): the argument's
\* response is the body, so its .status and .data are the body's fields, and
\* it has no config field
rewrapTBOError(error) ==
    [message |-> error.message,
     code |-> IF error.hasResponse THEN error.response.status ELSE None,
     response |-> IF error.hasResponse THEN error.response.data ELSE None]

\* a backoff that doubles: 1000, 2000, 4000, ...
BackoffDelayDoubling(n) == BackoffBaseMs * (2 ^ (n - 1))

\* delay argument of the retry that sets _retryCount to n
BackoffDelay(n) == BackoffBaseMs * n

\* the retry guard with <= in place of <
ShouldRetryOneMore(error, retryCount) ==
    error.hasConfig /\ OrDefault(retryCount, 0) <= config.retries

\* the retry guard without the count
ShouldRetryUnbounded(error, retryCount) ==
    error.hasConfig

\* the retry guard that stops one retry early
ShouldRetryOneFewer(error, retryCount) ==
    error.hasConfig /\ OrDefault(retryCount, 0) + 1 < config.retries

\* the retry guard of the response error handler
ShouldRetry(error, retryCount) ==
    error.hasConfig /\ OrDefault(retryCount, 0) < config.retries

\* a request config that sends the payload as the body for every method
RequestConfigAlwaysData(endpoint, data, method) ==
    [method |-> method,
     url |-> "/" \o endpoint,
     retryCount |-> Some(0),
     data |-> Some(data),
     params |-> None]

\* makeRequest's request config
RequestConfig(endpoint, data, method) ==
    [method |-> method,
     url |-> "/" \o endpoint,
     retryCount |-> Some(0),
     data |-> IF method = "POST" THEN Some(data) ELSE None,
     params |-> IF method = "GET" /\ Cardinality(data) > 0 THEN Some(data) ELSE None]

\* the response object of a fulfilled attempt
AxiosResponse(o) == [status |-> o.status, statusText |-> o.message, data |-> o.body]

\* a return value with the business status forced to 200
ResponseDataNormalised(response) == [response.data EXCEPT !.Status = Some(200)]

\* makeRequest's return value: response.data
ResponseData(response) == response.data

NoResult == [kind |-> "none", body |-> NoBody, error |-> [message |-> "", code |-> None, response |-> None]]

IdleCall ==
    [pc |-> "idle",
     args |-> [endpoint |-> "", data |-> {}, method |-> ""],
     cfg |-> [method |-> "", url |-> "", retryCount |-> None, data |-> None, params |-> None],
     sent |-> <<>>,
     hist |-> <<>>,
     delays |-> <<>>,
     result |-> NoResult]

\* no helper method called yet
IdleFn == [op |-> "none", input |-> <<>>, output |-> <<>>]

\* testConnection and getLocationData not called yet
IdleTasks ==
    [testConnection |->
         [pc |-> "idle",
          results |-> [connected |-> TRUE,
                       endpoints |-> [e \in {} |-> FALSE],
                       errors |-> <<>>]],
     getLocationData |->
         [pc |-> "idle",
          countryCode |-> "",
          country |-> None,
          returned |-> [country |-> None, cities |-> <<>>]]]

Init ==
    /\ env = NoEnv
    /\ supplied \in SuppliedConfigs
    /\ config = Constructor(supplied)
    /\ call = [c \in CallIds |-> IdleCall]
    /\ fn = IdleFn
    /\ task = IdleTasks

\* makeRequest up to its await: build the config and issue the first attempt
MakeRequest(c, endpoint, data, method) ==
    /\ call[c].pc = "idle"
    /\ LET rc == RequestConfig(endpoint, data, method) IN
       call' = [call EXCEPT ![c] = [@ EXCEPT !.pc = "sending",
                                              !.args = [endpoint |-> endpoint,
                                                        data |-> data,
                                                        method |-> method],
                                              !.cfg = rc,
                                              !.sent = <<rc>>]]
    /\ UNCHANGED <<supplied, config, env, fn, task>>

\* an error handler that resolves with an empty value once the retries are
\* used up
ResponseErrorSwallowing(c, o) ==
    /\ call[c].pc = "sending"
    /\ LET error == AxiosError(o) IN
       IF ShouldRetry(error, call[c].cfg.retryCount)
       THEN LET n == OrDefault(call[c].cfg.retryCount, 0) + 1 IN
            call' = [call EXCEPT ![c] = [@ EXCEPT
                        !.pc = "backoff",
                        !.hist = Append(@, o),
                        !.cfg = [@ EXCEPT !.retryCount = Some(n)],
                        !.delays = Append(@, BackoffDelay(n))]]
       ELSE call' = [call EXCEPT ![c] = [@ EXCEPT
                        !.pc = "resolved",
                        !.hist = Append(@, o),
                        !.result = [NoResult EXCEPT !.kind = "resolved"]]]
    /\ UNCHANGED <<supplied, config, env, fn, task>>

\* an error handler whose retry counter is shared by the calls in flight
ResponseErrorShared(c, o) ==
    /\ call[c].pc = "sending"
    /\ LET error == AxiosError(o) IN
       IF ShouldRetry(error, call[c].cfg.retryCount)
       THEN LET n == OrDefault(call[c].cfg.retryCount, 0) + 1 IN
            call' = [d \in DOMAIN call |->
                        IF d = c
                        THEN [call[c] EXCEPT
                                 !.pc = "backoff",
                                 !.hist = Append(@, o),
                                 !.cfg = [@ EXCEPT !.retryCount = Some(n)],
                                 !.delays = Append(@, BackoffDelay(n))]
                        ELSE IF call[d].pc \in {"sending", "backoff"}
                             THEN [call[d] EXCEPT
                                      !.cfg = [@ EXCEPT !.retryCount =
                                                  Some(OrDefault(call[d].cfg.retryCount, 0) + 1)]]
                             ELSE call[d]]
       ELSE call' = [call EXCEPT ![c] = [@ EXCEPT
                        !.pc = "rejected",
                        !.hist = Append(@, o),
                        !.result = [NoResult EXCEPT
                                       !.kind = "rejected",
                                       !.error = rewrapTBOError(createTBOError(error))]]]
    /\ UNCHANGED <<supplied, config, env, fn, task>>

\* an error handler that retries GET requests only
ResponseErrorIdempotentOnly(c, o) ==
    /\ call[c].pc = "sending"
    /\ LET error == AxiosError(o) IN
       IF ShouldRetry(error, call[c].cfg.retryCount) /\ call[c].cfg.method = "GET"
       THEN LET n == OrDefault(call[c].cfg.retryCount, 0) + 1 IN
            call' = [call EXCEPT ![c] = [@ EXCEPT
                        !.pc = "backoff",
                        !.hist = Append(@, o),
                        !.cfg = [@ EXCEPT !.retryCount = Some(n)],
                        !.delays = Append(@, BackoffDelay(n))]]
       ELSE call' = [call EXCEPT ![c] = [@ EXCEPT
                        !.pc = "rejected",
                        !.hist = Append(@, o),
                        !.result = [NoResult EXCEPT
                                       !.kind = "rejected",
                                       !.error = rewrapTBOError(createTBOError(error))]]]
    /\ UNCHANGED <<supplied, config, env, fn, task>>

\* response interceptor, error handler: retry up to the await of delay, or
\* reject; a rejection unwinds through the handlers of the earlier attempts
\* into makeRequest's catch, which wraps the error again
ResponseError(c, o) ==
    /\ call[c].pc = "sending"
    /\ LET error == AxiosError(o) IN
       IF ShouldRetry(error, call[c].cfg.retryCount)
       THEN LET n == OrDefault(call[c].cfg.retryCount, 0) + 1 IN
            call' = [call EXCEPT ![c] = [@ EXCEPT
                        !.pc = "backoff",
                        !.hist = Append(@, o),
                        !.cfg = [@ EXCEPT !.retryCount = Some(n)],
                        !.delays = Append(@, BackoffDelay(n))]]
       ELSE call' = [call EXCEPT ![c] = [@ EXCEPT
                        !.pc = "rejected",
                        !.hist = Append(@, o),
                        !.result = [NoResult EXCEPT
                                       !.kind = "rejected",
                                       !.error = rewrapTBOError(createTBOError(error))]]]
    /\ UNCHANGED <<supplied, config, env, fn, task>>

\* a success handler that treats a non-200 business status as a failure
ResponseSuccessChecked(c, o) ==
    IF o.body.Status = Some(200)
    THEN /\ call[c].pc = "sending"
         /\ call' = [call EXCEPT ![c] = [@ EXCEPT
                         !.pc = "resolved",
                         !.hist = Append(@, o),
                         !.result = [NoResult EXCEPT !.kind = "resolved", !.body = o.body]]]
         /\ UNCHANGED <<supplied, config, env, fn, task>>
    ELSE ResponseError(c, o)

\* response interceptor, success handler, then makeRequest returns response.data
ResponseSuccess(c, o) ==
    /\ call[c].pc = "sending"
    /\ call' = [call EXCEPT ![c] = [@ EXCEPT
                    !.pc = "resolved",
                    !.hist = Append(@, o),
                    !.result = [NoResult EXCEPT !.kind = "resolved",
                                                !.body = ResponseData(AxiosResponse(o))]]]
    /\ UNCHANGED <<supplied, config, env, fn, task>>

\* a delay whose promise is never resolved
DelayElapsedNever(c) ==
    /\ call[c].pc = "backoff"
    /\ UNCHANGED vars

\* a retry timer that also fires for a call already rejected
DelayElapsedAfterDone(c) ==
    /\ call[c].pc \in {"backoff", "rejected"}
    /\ Len(call[c].sent) <= config.retries + 1
    /\ call' = [call EXCEPT ![c] = [@ EXCEPT !.pc = "sending",
                                             !.sent = Append(@, call[c].cfg)]]
    /\ UNCHANGED <<supplied, config, env, fn, task>>

\* a re-issue that builds a new config without the payload
DelayElapsedDropsPayload(c) ==
    /\ call[c].pc = "backoff"
    /\ call' = [call EXCEPT ![c] = [@ EXCEPT
                    !.pc = "sending",
                    !.sent = Append(@, [call[c].cfg EXCEPT !.data = None, !.params = None])]]
    /\ UNCHANGED <<supplied, config, env, fn, task>>

\* the timer of delay fires: the handler re-issues the request with its config
DelayElapsed(c) ==
    /\ call[c].pc = "backoff"
    /\ call' = [call EXCEPT ![c] = [@ EXCEPT !.pc = "sending",
                                             !.sent = Append(@, call[c].cfg)]]
    /\ UNCHANGED <<supplied, config, env, fn, task>>

\* calls a caller of this client issues
ActiveCalls == {1}

Next ==
    \/ \E c \in ActiveCalls, e \in Endpoints, d \in Payloads, m \in Methods :
          MakeRequest(c, e, d, m)
    \/ \E c \in ActiveCalls, o \in SuccessOutcomes : ResponseSuccess(c, o)
    \/ \E c \in ActiveCalls, o \in ErrorOutcomes : ResponseError(c, o)
    \/ \E c \in ActiveCalls : DelayElapsed(c)

Spec == Init /\ [][Next]_vars

\* the same client with fairness: every HTTP attempt is eventually answered
\* and every backoff timer eventually fires
Answered(c) ==
    \/ \E o \in SuccessOutcomes : ResponseSuccess(c, o)
    \/ \E o \in ErrorOutcomes : ResponseError(c, o)

FairSpec ==
    /\ Init
    /\ [][Next]_vars
    /\ \A c \in ActiveCalls : WF_vars(Answered(c)) /\ WF_vars(DelayElapsed(c))

\* two calls issued concurrently on one client, as Promise.all over client
\* methods does; the transport answers each attempt of either call
ConcurrentEndpoints == {"CountryList"}
ConcurrentPayloads == {{"CheckIn"}}
ConcurrentSuccessOutcomes == {o \in SuccessOutcomes : o.body.Status \in {Some(200), Some(201)}}
ConcurrentErrorOutcomes ==
    {o \in HttpErrorOutcomes : o.status \in {401, 500} /\ o.body.Status /= None}

NextConcurrent ==
    \/ \E c \in CallIds, e \in ConcurrentEndpoints, d \in ConcurrentPayloads, m \in Methods :
          MakeRequest(c, e, d, m)
    \/ \E c \in CallIds, o \in ConcurrentSuccessOutcomes : ResponseSuccess(c, o)
    \/ \E c \in CallIds, o \in ConcurrentErrorOutcomes : ResponseError(c, o)
    \/ \E c \in CallIds : DelayElapsed(c)

SpecConcurrent == Init /\ [][NextConcurrent]_vars

\* a client constructed from any config object in any environment, which
\* then issues a request
InitConstructed ==
    /\ env \in Envs
    /\ supplied \in AllSuppliedConfigs
    /\ config = Constructor(supplied)
    /\ call = [c \in CallIds |-> IdleCall]
    /\ fn = IdleFn
    /\ task = IdleTasks

NextConstructed ==
    \E c \in ActiveCalls, e \in Endpoints, d \in Payloads, m \in Methods :
        MakeRequest(c, e, d, m)

SpecConstructed == InitConstructed /\ [][NextConstructed]_vars

----------------------------------------------------------------------------
(* TBOHolidaysSDK.testConnection: one try/catch block *)

Description(c) ==
    CASE c = 200 -> "Successful"
      [] c = 201 -> "No Available rooms for given criteria"
      [] c = 401 -> "Access Credentials is incorrect"
      [] c = 500 -> "Unexpected Error"

\* how an awaited client method ended, from its call of makeRequest: it
\* returned a body with its Status, or it threw the error of makeRequest
ClientOutcome(cl) ==
    IF cl.result.kind = "rejected"
    THEN [threw |-> TRUE, Code |-> 0, Description |-> "",
          message |-> cl.result.error.message]
    ELSE [threw |-> FALSE, Code |-> cl.result.body.Status[1],
          Description |-> Description(cl.result.body.Status[1]), message |-> ""]

\* one try/catch block that records no error for a non-200 status
CheckEndpointSilent(name, o) ==
    IF o.threw
    THEN [value |-> FALSE, errors |-> <<name \o ": " \o o.message>>, caught |-> TRUE]
    ELSE [value |-> (o.Code = 200), errors |-> <<>>, caught |-> FALSE]

\* one try/catch block of testConnection: the endpoint's flag, the errors it
\* pushes and whether its catch ran
CheckEndpoint(name, o) ==
    IF o.threw
    THEN [value |-> FALSE, errors |-> <<name \o ": " \o o.message>>, caught |-> TRUE]
    ELSE [value |-> (o.Code = 200),
          errors |-> IF o.Code /= 200 THEN <<name \o ": " \o o.Description>> ELSE <<>>,
          caught |-> FALSE]

\* results after the block of an endpoint: only the catch of the CountryList
\* block clears connected
ResultsAfter(results, name, o) ==
    LET block == CheckEndpoint(name, o)
    IN [connected |-> IF block.caught /\ name = "CountryList" THEN FALSE
                      ELSE results.connected,
        endpoints |-> (name :> block.value) @@ results.endpoints,
        errors |-> results.errors \o block.errors]

----------------------------------------------------------------------------
(* PreBookClient.extractPreBookInfo and validatePreBookResponse *)

MaxPolicies == 2

SeqsUpTo(S, n) == UNION { [1..k -> S] : k \in 0..n }

PolicyCharges == {0, 50}

CancelPoliciesLists ==
    { [i \in 1..Len(q) |-> [CancellationCharge |-> q[i]]] :
          q \in SeqsUpTo(PolicyCharges, MaxPolicies) }

CancellationPoliciesValues ==
    { [NonRefundable |-> n, CancelPolicies |-> l] :
          n \in BOOLEAN, l \in {None} \cup {Some(q) : q \in CancelPoliciesLists} }

PriceValues == { [OfferedPrice |-> p, CurrencyCode |-> "USD"] : p \in {0, 100} }

HotelBookingDetailsValues ==
    { [BookingCode |-> b, HotelName |-> "Hotel", CheckIn |-> "2025-01-10",
       CheckOut |-> "2025-01-12", Price |-> p, CancellationPolicies |-> c] :
          b \in {None, Some(""), Some("BC")},
          p \in {None} \cup {Some(v) : v \in PriceValues},
          c \in {None} \cup {Some(v) : v \in CancellationPoliciesValues} }

PreBookResponses ==
    { [Status |-> st, HotelBookingDetails |-> d] :
          st \in {None} \cup {Some([Code |-> c, Description |-> Description(c)]) :
                                  c \in {200, 500}},
          d \in {None} \cup {Some(v) : v \in HotelBookingDetailsValues} }

\* refundable by the NonRefundable flag alone
IsRefundableFlagOnly(policies) == ~policies.NonRefundable

\* isRefundable of a response that has CancellationPolicies: the negated flag,
\* overridden to true when the first policy charges nothing
IsRefundable(policies) ==
    IF /\ policies.CancelPolicies /= None
       /\ Len(policies.CancelPolicies[1]) > 0
       /\ policies.CancelPolicies[1][1].CancellationCharge = 0
    THEN TRUE
    ELSE ~policies.NonRefundable

extractPreBookInfo(response) ==
    LET hasDetails == response.HotelBookingDetails /= None
        details == response.HotelBookingDetails[1]
        hasPrice == hasDetails /\ details.Price /= None
        hasPolicies == hasDetails /\ details.CancellationPolicies /= None
    IN [status |-> IF response.Status /= None
                   THEN Some([code |-> response.Status[1].Code,
                              description |-> response.Status[1].Description])
                   ELSE None,
        bookingCode |-> IF hasDetails THEN details.BookingCode ELSE None,
        totalFare |-> IF hasPrice THEN Some(details.Price[1].OfferedPrice) ELSE None,
        currency |-> IF hasPrice THEN Some(details.Price[1].CurrencyCode) ELSE None,
        hotelName |-> IF hasDetails THEN Some(details.HotelName) ELSE None,
        checkIn |-> IF hasDetails THEN Some(details.CheckIn) ELSE None,
        checkOut |-> IF hasDetails THEN Some(details.CheckOut) ELSE None,
        isRefundable |-> IF hasPolicies THEN IsRefundable(details.CancellationPolicies[1])
                         ELSE FALSE,
        cancellationPolicies |-> IF hasPolicies
                                 THEN details.CancellationPolicies[1].CancelPolicies
                                 ELSE None]

\* a validation that accepts a response without a price
validatePreBookResponseNoPricing(response) ==
    LET info == extractPreBookInfo(response)
    IN IF info.status = None
       THEN [isValid |-> FALSE, message |-> "No status information in response"]
       ELSE IF info.status[1].code /= 200
       THEN [isValid |-> FALSE,
             message |-> "Pre-book failed: " \o info.status[1].description]
       ELSE IF info.bookingCode = None \/ info.bookingCode = Some("")
       THEN [isValid |-> FALSE, message |-> "No booking code in response"]
       ELSE [isValid |-> TRUE, message |-> "Pre-book successful"]

validatePreBookResponse(response) ==
    LET info == extractPreBookInfo(response)
    IN IF info.status = None
       THEN [isValid |-> FALSE, message |-> "No status information in response"]
       ELSE IF info.status[1].code /= 200
       THEN [isValid |-> FALSE,
             message |-> "Pre-book failed: " \o info.status[1].description]
       ELSE IF info.bookingCode = None \/ info.bookingCode = Some("")
       THEN [isValid |-> FALSE, message |-> "No booking code in response"]
       ELSE IF info.totalFare = None \/ info.totalFare = Some(0)
       THEN [isValid |-> FALSE, message |-> "No pricing information available"]
       ELSE [isValid |-> TRUE, message |-> "Pre-book successful"]

CallExtractPreBookInfo(response) ==
    /\ fn.op = "none"
    /\ fn' = [op |-> "extractPreBookInfo", input |-> response,
              output |-> extractPreBookInfo(response)]
    /\ UNCHANGED <<supplied, config, call, env, task>>

CallValidatePreBookResponse(response) ==
    /\ fn.op = "none"
    /\ fn' = [op |-> "validatePreBookResponse", input |-> response,
              output |-> validatePreBookResponse(response)]
    /\ UNCHANGED <<supplied, config, call, env, task>>

----------------------------------------------------------------------------
(* HotelSearchClient.extractBookingCodes and getSearchSummary *)

MaxHotels == 2
MaxRooms == 2

RoomValues ==
    { [BookingCode |-> "A", TotalFare |-> 100],
      [BookingCode |-> "", TotalFare |-> 50],
      [BookingCode |-> "B", TotalFare |-> 0],
      [BookingCode |-> "C", TotalFare |-> 200] }

HotelResultValues ==
    { [HotelCode |-> "H", Currency |-> "USD", Rooms |-> r] :
          r \in {None} \cup {Some(q) : q \in SeqsUpTo(RoomValues, MaxRooms)} }

HotelSearchResponses ==
    { [HotelResult |-> h] :
          h \in {None} \cup {Some(q) : q \in SeqsUpTo(HotelResultValues, MaxHotels)} }

\* pushes the code of every room, empty or not
BookingCodeOfAny(room) == <<room.BookingCode>>

\* if (room.BookingCode) bookingCodes.push(room.BookingCode)
BookingCodeOf(room) ==
    IF room.BookingCode /= "" THEN <<room.BookingCode>> ELSE <<>>

RECURSIVE RoomsBookingCodes(_)
RoomsBookingCodes(rooms) ==
    IF rooms = <<>> THEN <<>>
    ELSE BookingCodeOf(Head(rooms)) \o RoomsBookingCodes(Tail(rooms))

RECURSIVE HotelsBookingCodes(_)
HotelsBookingCodes(hotels) ==
    IF hotels = <<>> THEN <<>>
    ELSE (IF Head(hotels).Rooms /= None
          THEN RoomsBookingCodes(Head(hotels).Rooms[1]) ELSE <<>>)
         \o HotelsBookingCodes(Tail(hotels))

extractBookingCodes(response) ==
    IF response.HotelResult /= None
    THEN HotelsBookingCodes(response.HotelResult[1]) ELSE <<>>

\* Math.min and Math.max against the running Infinity / -Infinity (None)
MathMin(running, v) == IF running = None \/ v < running[1] THEN Some(v) ELSE running
MathMax(running, v) == IF running = None \/ v > running[1] THEN Some(v) ELSE running

\* a loop body that takes the fare only of a room that has a booking code
SummaryRoomBookableOnly(acc, room) ==
    [acc EXCEPT
        !.totalBookingCodes = IF room.BookingCode /= "" THEN @ + 1 ELSE @,
        !.minPrice = IF room.BookingCode /= "" /\ room.TotalFare /= 0
                     THEN MathMin(@, room.TotalFare) ELSE @,
        !.maxPrice = IF room.BookingCode /= "" /\ room.TotalFare /= 0
                     THEN MathMax(@, room.TotalFare) ELSE @]

\* body of the loop over the rooms of a hotel
SummaryRoom(acc, room) ==
    [acc EXCEPT
        !.totalBookingCodes = IF room.BookingCode /= "" THEN @ + 1 ELSE @,
        !.minPrice = IF room.TotalFare /= 0 THEN MathMin(@, room.TotalFare) ELSE @,
        !.maxPrice = IF room.TotalFare /= 0 THEN MathMax(@, room.TotalFare) ELSE @]

RECURSIVE SummaryRooms(_, _)
SummaryRooms(acc, rooms) ==
    IF rooms = <<>> THEN acc
    ELSE SummaryRooms(SummaryRoom(acc, Head(rooms)), Tail(rooms))

\* body of the loop over the hotels
SummaryHotel(acc, hotel) ==
    IF hotel.Rooms /= None
    THEN SummaryRooms(
             [acc EXCEPT !.totalRooms = @ + Len(hotel.Rooms[1]),
                         !.currency = IF hotel.Currency /= "" THEN hotel.Currency ELSE @],
             hotel.Rooms[1])
    ELSE acc

RECURSIVE SummaryHotels(_, _)
SummaryHotels(acc, hotels) ==
    IF hotels = <<>> THEN acc
    ELSE SummaryHotels(SummaryHotel(acc, Head(hotels)), Tail(hotels))

SummaryStart ==
    [totalRooms |-> 0, totalBookingCodes |-> 0, minPrice |-> None,
     maxPrice |-> None, currency |-> ""]

getSearchSummary(response) ==
    LET hotels == IF response.HotelResult /= None THEN response.HotelResult[1] ELSE <<>>
        acc == SummaryHotels(SummaryStart, hotels)
    IN [totalHotels |-> Len(hotels),
        totalRooms |-> acc.totalRooms,
        totalBookingCodes |-> acc.totalBookingCodes,
        priceRange |-> IF acc.totalBookingCodes > 0
                       THEN Some([min |-> OrDefault(acc.minPrice, 0),
                                  max |-> OrDefault(acc.maxPrice, 0),
                                  currency |-> acc.currency])
                       ELSE None]

CallExtractBookingCodes(response) ==
    /\ fn.op = "none"
    /\ fn' = [op |-> "extractBookingCodes", input |-> response,
              output |-> extractBookingCodes(response)]
    /\ UNCHANGED <<supplied, config, call, env, task>>

CallGetSearchSummary(response) ==
    /\ fn.op = "none"
    /\ fn' = [op |-> "getSearchSummary", input |-> response,
              output |-> getSearchSummary(response)]
    /\ UNCHANGED <<supplied, config, call, env, task>>

----------------------------------------------------------------------------
(* UtilitiesClient.getLocationData: its synchronous parts *)

CountryCodes == {"AE", "US"}

AE == [Code |-> "AE", Name |-> "United Arab Emirates"]
US == [Code |-> "US", Name |-> "United States"]
AEAgain == [Code |-> "AE", Name |-> "UAE"]

Dubai == [Code |-> "115936", Name |-> "Dubai", CountryCode |-> "AE"]
AbuDhabi == [Code |-> "100765", Name |-> "Abu Dhabi", CountryCode |-> "AE"]

extractCountries(response) ==
    IF response.CountryList /= None THEN response.CountryList[1] ELSE <<>>

extractCities(response) ==
    IF response.CityList /= None THEN response.CityList[1] ELSE <<>>

\* countries.find(c => c.Code === countryCode) || null
RECURSIVE Find(_, _)
Find(countries, countryCode) ==
    IF countries = <<>> THEN None
    ELSE IF Head(countries).Code = countryCode THEN Some(Head(countries))
    ELSE Find(Tail(countries), countryCode)

\* a catch that keeps the country found before the failure
LocationCatchKeepsCountry(country) == [country |-> country, cities |-> <<>>]

\* the catch of getLocationData; country is the local of the try block
LocationCatch(country) == [country |-> None, cities |-> <<>>]

----------------------------------------------------------------------------
(* The SDK in use: testConnection and getLocationData run on the event     *)
(* loop. Each awaits two client calls, one after the other; every client   *)
(* call is a makeRequest with its own attempts, retries and backoff        *)
(* timers. One action is one turn of the event loop: a method is called,   *)
(* an attempt is answered, or a timer fires, and the code runs up to its   *)
(* next await.                                                             *)

\* the makeRequest calls of the two helpers
SdkCallIds == {"testConnection.CountryList", "testConnection.HotelSearch",
               "getLocationData.CountryList", "getLocationData.CityList"}

\* new TBOHolidaysSDK({username, password, retries: 1})
SdkConfig ==
    [retries |-> Some(1), timeout |-> None, baseURL |-> None,
     username |-> Some("cfg-user"), password |-> Some("cfg-pass")]

\* keys of the request of searchSingleRoom(checkIn, checkOut, 1, 0, [], 'AE', codes)
SearchRequest ==
    {"CheckIn", "CheckOut", "GuestNationality", "PaxRooms", "ResponseTime",
     "IsDetailedResponse", "Filters", "HotelCodes"}

\* keys of the request of getCityList
CityListRequest == {"CountryCode"}

\* a body of the service with the list of the endpoint
ListBody(c, countries, cities) ==
    [Status |-> Some(c), status |-> None, data |-> None,
     CountryList |-> countries, CityList |-> cities]

Ok200(body) ==
    [ok |-> TRUE, hasResponse |-> TRUE, status |-> 200, body |-> body, message |-> "OK"]

\* the 2xx answers of the service to a request, by its url
SdkSuccessOutcomes(url) ==
    CASE url = "/CountryList" ->
             { Ok200(ListBody(200, Some(<<AE, AEAgain>>), None)),
               Ok200(ListBody(200, Some(<<US, AE>>), None)),
               Ok200(ListBody(401, None, None)) }
      [] url = "/search" ->
             { Ok200(ListBody(200, None, None)), Ok200(ListBody(201, None, None)) }
      [] url = "/CityList" ->
             { Ok200(ListBody(200, None, Some(<<Dubai, AbuDhabi>>))),
               Ok200(ListBody(201, None, None)) }

\* the failures of an attempt: HTTP 500 with the service's body, no response
SdkErrorOutcomes ==
    {o \in ErrorOutcomes : ~o.hasResponse \/ (o.status = 500 /\ o.body.Status /= None)}

\* makeRequest up to its await, as the call record it leaves
Requested(endpoint, data, method) ==
    LET rc == RequestConfig(endpoint, data, method) IN
    [IdleCall EXCEPT !.pc = "sending",
                     !.args = [endpoint |-> endpoint, data |-> data, method |-> method],
                     !.cfg = rc,
                     !.sent = <<rc>>]

\* the success handler and makeRequest's return, on the call record
Fulfilled(cl, o) ==
    [cl EXCEPT !.pc = "resolved",
               !.hist = Append(@, o),
               !.result = [NoResult EXCEPT !.kind = "resolved",
                                           !.body = ResponseData(AxiosResponse(o))]]

\* the error handler on the call record: retry up to the await of delay, or
\* reject through makeRequest's catch
Failed(cl, o) ==
    LET error == AxiosError(o) IN
    IF ShouldRetry(error, cl.cfg.retryCount)
    THEN LET n == OrDefault(cl.cfg.retryCount, 0) + 1 IN
         [cl EXCEPT !.pc = "backoff",
                    !.hist = Append(@, o),
                    !.cfg = [@ EXCEPT !.retryCount = Some(n)],
                    !.delays = Append(@, BackoffDelay(n))]
    ELSE [cl EXCEPT !.pc = "rejected",
                    !.hist = Append(@, o),
                    !.result = [NoResult EXCEPT
                                   !.kind = "rejected",
                                   !.error = rewrapTBOError(createTBOError(error))]]

\* the timer of delay fires: the request is re-issued with its config
Reissued(cl) == [cl EXCEPT !.pc = "sending", !.sent = Append(@, cl.cfg)]

\* the call a helper is awaiting
Awaited(helper) == helper \o "." \o task[helper].pc

Awaiting(helper) == task[helper].pc \notin {"idle", "returned"}

\* sdk.testConnection() is called: it runs up to the await of getCountryList()
TestConnectionCalled ==
    /\ task.testConnection.pc = "idle"
    /\ task' = [task EXCEPT !.testConnection.pc = "CountryList"]
    /\ call' = [call EXCEPT !["testConnection.CountryList"] =
                                Requested("CountryList", {}, "GET")]
    /\ UNCHANGED <<supplied, config, env, fn>>

\* the awaited client call of testConnection has settled: the rest of its
\* try/catch block runs, then the next call is issued or the method returns
TestConnectionResumes(settled) ==
    LET name == task.testConnection.pc
        results == ResultsAfter(task.testConnection.results, name, ClientOutcome(settled))
    IN IF name = "CountryList"
       THEN /\ task' = [task EXCEPT !.testConnection =
                                        [pc |-> "HotelSearch", results |-> results]]
            /\ call' = [call EXCEPT
                           !["testConnection.CountryList"] = settled,
                           !["testConnection.HotelSearch"] =
                               Requested("search", SearchRequest, "POST")]
       ELSE /\ task' = [task EXCEPT !.testConnection =
                                        [pc |-> "returned", results |-> results]]
            /\ call' = [call EXCEPT !["testConnection.HotelSearch"] = settled]

\* an attempt of the call testConnection awaits is answered with a 2xx
TestConnectionResponse(o) ==
    /\ Awaiting("testConnection")
    /\ call[Awaited("testConnection")].pc = "sending"
    /\ o \in SdkSuccessOutcomes(call[Awaited("testConnection")].cfg.url)
    /\ TestConnectionResumes(Fulfilled(call[Awaited("testConnection")], o))
    /\ UNCHANGED <<supplied, config, env, fn>>

\* an attempt of the call testConnection awaits fails: the interceptor
\* schedules a retry, or the call rejects and testConnection's catch runs
TestConnectionResponseError(o) ==
    /\ Awaiting("testConnection")
    /\ call[Awaited("testConnection")].pc = "sending"
    /\ LET settled == Failed(call[Awaited("testConnection")], o)
       IN IF settled.pc = "backoff"
          THEN /\ call' = [call EXCEPT ![Awaited("testConnection")] = settled]
               /\ UNCHANGED task
          ELSE TestConnectionResumes(settled)
    /\ UNCHANGED <<supplied, config, env, fn>>

\* sdk.utilities.getLocationData(countryCode) is called: it runs up to the
\* await of getCountryList()
GetLocationDataCalled(countryCode) ==
    /\ task.getLocationData.pc = "idle"
    /\ task' = [task EXCEPT !.getLocationData.pc = "CountryList",
                            !.getLocationData.countryCode = countryCode]
    /\ call' = [call EXCEPT !["getLocationData.CountryList"] =
                                Requested("CountryList", {}, "GET")]
    /\ UNCHANGED <<supplied, config, env, fn>>

\* the awaited client call of getLocationData has settled: a rejection goes
\* to the catch; otherwise the country is looked up and the city list
\* requested, or the method returns
GetLocationDataResumes(settled) ==
    LET t == task.getLocationData IN
    IF settled.result.kind = "rejected"
    THEN /\ task' = [task EXCEPT !.getLocationData =
                                     [t EXCEPT !.pc = "returned",
                                               !.returned = LocationCatch(t.country)]]
         /\ call' = [call EXCEPT ![Awaited("getLocationData")] = settled]
    ELSE IF t.pc = "CountryList"
    THEN /\ task' = [task EXCEPT !.getLocationData =
                                     [t EXCEPT !.pc = "CityList",
                                               !.country = Find(extractCountries(settled.result.body),
                                                                t.countryCode)]]
         /\ call' = [call EXCEPT
                        !["getLocationData.CountryList"] = settled,
                        !["getLocationData.CityList"] =
                            Requested("CityList", CityListRequest, "POST")]
    ELSE /\ task' = [task EXCEPT !.getLocationData =
                                     [t EXCEPT !.pc = "returned",
                                               !.returned =
                                                   [country |-> t.country,
                                                    cities |-> extractCities(settled.result.body)]]]
         /\ call' = [call EXCEPT !["getLocationData.CityList"] = settled]

GetLocationDataResponse(o) ==
    /\ Awaiting("getLocationData")
    /\ call[Awaited("getLocationData")].pc = "sending"
    /\ o \in SdkSuccessOutcomes(call[Awaited("getLocationData")].cfg.url)
    /\ GetLocationDataResumes(Fulfilled(call[Awaited("getLocationData")], o))
    /\ UNCHANGED <<supplied, config, env, fn>>

GetLocationDataResponseError(o) ==
    /\ Awaiting("getLocationData")
    /\ call[Awaited("getLocationData")].pc = "sending"
    /\ LET settled == Failed(call[Awaited("getLocationData")], o)
       IN IF settled.pc = "backoff"
          THEN /\ call' = [call EXCEPT ![Awaited("getLocationData")] = settled]
               /\ UNCHANGED task
          ELSE GetLocationDataResumes(settled)
    /\ UNCHANGED <<supplied, config, env, fn>>

\* the backoff timer of a call fires; the helper that awaits it stays put
SdkDelayElapsed(c) ==
    /\ call[c].pc = "backoff"
    /\ call' = [call EXCEPT ![c] = Reissued(call[c])]
    /\ UNCHANGED <<supplied, config, env, fn, task>>

SdkAllSuccessOutcomes ==
    SdkSuccessOutcomes("/CountryList") \cup SdkSuccessOutcomes("/search")
        \cup SdkSuccessOutcomes("/CityList")

InitSdk ==
    /\ env = NoEnv
    /\ supplied = SdkConfig
    /\ config = Constructor(supplied)
    /\ call = [c \in SdkCallIds |-> IdleCall]
    /\ fn = IdleFn
    /\ task = IdleTasks

NextSdk ==
    \/ TestConnectionCalled
    \/ \E o \in SdkAllSuccessOutcomes : TestConnectionResponse(o)
    \/ \E o \in SdkErrorOutcomes : TestConnectionResponseError(o)
    \/ \E code \in CountryCodes : GetLocationDataCalled(code)
    \/ \E o \in SdkAllSuccessOutcomes : GetLocationDataResponse(o)
    \/ \E o \in SdkErrorOutcomes : GetLocationDataResponseError(o)
    \/ \E c \in SdkCallIds : SdkDelayElapsed(c)

SpecSdk == InitSdk /\ [][NextSdk]_vars

----------------------------------------------------------------------------
(* The synchronous helper methods, each called once on any argument *)

InitHelpers ==
    /\ env = NoEnv
    /\ supplied = EmptyConfig
    /\ config = Constructor(supplied)
    /\ call = [c \in CallIds |-> IdleCall]
    /\ fn = IdleFn
    /\ task = IdleTasks

NextHelpers ==
    \/ \E r \in PreBookResponses : CallExtractPreBookInfo(r)
    \/ \E r \in PreBookResponses : CallValidatePreBookResponse(r)
    \/ \E r \in HotelSearchResponses : CallExtractBookingCodes(r)
    \/ \E r \in HotelSearchResponses : CallGetSearchSummary(r)

SpecHelpers == InitHelpers /\ [][NextHelpers]_vars

----------------------------------------------------------------------------
(* Observations on a call *)

Attempts(c) == Len(call[c].sent)
Answers(c) == call[c].hist
LastAnswer(c) == call[c].hist[Len(call[c].hist)]
Resolved(c) == call[c].pc = "resolved"
Rejected(c) == call[c].pc = "rejected"
AllFailed(c) == \A i \in 1..Len(Answers(c)) : ~Answers(c)[i].ok
Is5xx(o) == ~o.ok /\ o.hasResponse /\ o.status \in 500..599
Is4xx(o) == ~o.ok /\ o.hasResponse /\ o.status \in 400..499
MaxRetries == config.retries

----------------------------------------------------------------------------
(* Retry bound *)

\* C1: a call whose every attempt fails issues exactly maxRetries + 1
\* attempts and then rejects: while all its answers are failures it has
\* issued at most maxRetries + 1 attempts, it is rejected as soon as the
\* attempt maxRetries + 1 has failed and not before, and a rejected call has
\* issued exactly maxRetries + 1 attempts, all failed.
C1_ExhaustedAttempts ==
    \A c \in CallIds :
        /\ AllFailed(c) => Attempts(c) <= MaxRetries + 1
        /\ Rejected(c) => (AllFailed(c) /\ Attempts(c) = MaxRetries + 1)
        /\ (AllFailed(c) /\ Len(Answers(c)) = MaxRetries + 1) => Rejected(c)
        /\ (AllFailed(c) /\ Len(Answers(c)) < MaxRetries + 1) => ~Rejected(c)

C1_Witness ==
    \E c \in CallIds :
        /\ Rejected(c)
        /\ supplied.retries = Some(2)
        /\ Attempts(c) = 3
        /\ Len(Answers(c)) = 3

\* C2: in every state the number of attempts issued for a call is at most
\* maxRetries + 1, whatever the transport answered.
C2_AttemptsBounded ==
    \A c \in CallIds : Attempts(c) <= MaxRetries + 1

C2_Witness ==
    \E c \in CallIds :
        /\ Resolved(c)
        /\ Attempts(c) = MaxRetries + 1
        /\ Answers(c)[1].status = 401
        /\ ~Answers(c)[2].hasResponse

\* C3: for every k <= maxRetries, a call answered k times with a 5xx status
\* is not rejected, and when answer k + 1 is a successful response the call
\* is resolved with that response's body after exactly k + 1 attempts.
C3_SuccessAfter5xx ==
    \A c \in CallIds :
        \A k \in 0..MaxRetries :
            (/\ Len(Answers(c)) >= k
             /\ \A i \in 1..k : Is5xx(Answers(c)[i]))
            =>
            /\ (Len(Answers(c)) = k) => call[c].pc \in {"idle", "sending", "backoff"}
            /\ (Len(Answers(c)) = k + 1 /\ Answers(c)[k + 1].ok) =>
                   /\ Resolved(c)
                   /\ call[c].result.kind = "resolved"
                   /\ call[c].result.body = Answers(c)[k + 1].body
                   /\ Attempts(c) = k + 1

C3_Witness ==
    \E c \in CallIds :
        /\ MaxRetries = 3
        /\ Len(Answers(c)) = 3
        /\ Answers(c)[1].status = 500 /\ ~Answers(c)[1].ok
        /\ Answers(c)[2].status = 500 /\ ~Answers(c)[2].ok
        /\ Answers(c)[3].ok
        /\ Resolved(c)
        /\ Attempts(c) = 3
        /\ call[c].result.body = EnvelopeBody(200)

----------------------------------------------------------------------------
(* Terminal classifications *)

\* C4: a call whose attempt failed with HTTP 401 is rejected at once: it has
\* issued exactly 1 attempt and is not waiting for a retry.
C4_NoRetryOn401 ==
    \A c \in CallIds :
        (\E i \in 1..Len(Answers(c)) :
            ~Answers(c)[i].ok /\ Answers(c)[i].hasResponse /\ Answers(c)[i].status = 401)
        => (Rejected(c) /\ Attempts(c) = 1)

\* C5: a call whose attempt failed with HTTP 404 or 422 is rejected without
\* a retry: no second attempt and no backoff delay.
C5_NoRetryOn404Or422 ==
    \A c \in CallIds :
        (\E i \in 1..Len(Answers(c)) :
            ~Answers(c)[i].ok /\ Answers(c)[i].hasResponse
            /\ Answers(c)[i].status \in {404, 422})
        => (Rejected(c) /\ Attempts(c) = 1 /\ call[c].delays = <<>>)

\* C6: with retries: 0 in the constructor config, a call whose first attempt
\* failed with HTTP 500 is rejected after exactly 1 attempt and no delay.
C6_ZeroRetries ==
    \A c \in CallIds :
        (/\ supplied.retries = Some(0)
         /\ Len(Answers(c)) >= 1
         /\ Is5xx(Answers(c)[1]) /\ Answers(c)[1].status = 500)
        => (Rejected(c) /\ Attempts(c) = 1 /\ call[c].delays = <<>>)

\* C7: a call rejected with the error of a 4xx response has issued exactly
\* one attempt.
C7_No4xxAfterRetry ==
    \A c \in CallIds :
        (Rejected(c) /\ Is4xx(LastAnswer(c))) => Attempts(c) = 1

----------------------------------------------------------------------------
(* Backoff *)

\* C8: the delay taken before attempt N (2 <= N <= maxRetries + 1) is
\* 1000 * (N - 1) ms, exactly one delay is taken before each attempt after
\* the first, and none before attempt 1.
C8_LinearBackoff ==
    \A c \in CallIds :
        /\ Len(call[c].delays) <= MaxRetries
        /\ \A N \in 2..(Len(call[c].delays) + 1) : call[c].delays[N - 1] = 1000 * (N - 1)
        /\ call[c].pc = "backoff" => Len(call[c].delays) = Attempts(c)
        /\ call[c].pc \in {"sending", "resolved", "rejected"} =>
               Len(call[c].delays) = Attempts(c) - 1
        /\ call[c].pc = "idle" => call[c].delays = <<>>

C8_Witness ==
    \E c \in CallIds :
        /\ Attempts(c) = 4
        /\ call[c].delays = <<1000, 2000, 3000>>

\* C9: with the default of 3 retries the delays before the first, second
\* and third retry are 1 s, 2 s and 4 s.
C9_ExponentialBackoff ==
    \A c \in CallIds :
        (supplied.retries = None /\ Len(call[c].delays) = 3)
        => call[c].delays = <<1000, 2000, 4000>>

----------------------------------------------------------------------------
(* The error of a rejected call *)

\* C10: the error a rejected call hands to its caller is the one of the
\* final attempt's failure: its message and its HTTP status.
C10_FinalAttemptError ==
    \A c \in CallIds :
        Rejected(c) =>
            /\ call[c].result.error.message = LastAnswer(c).message
            /\ call[c].result.error.code =
                   (IF LastAnswer(c).hasResponse THEN Some(LastAnswer(c).status) ELSE None)

\* C11: when the final attempt of a rejected call failed with an HTTP
\* response of status S and body B, the error thrown to the caller has
\* code = S and response = B.
C11_ErrorCarriesStatusAndBody ==
    \A c \in CallIds :
        (Rejected(c) /\ LastAnswer(c).hasResponse) =>
            /\ call[c].result.error.code = Some(LastAnswer(c).status)
            /\ call[c].result.error.response = Some(LastAnswer(c).body)

----------------------------------------------------------------------------
(* Successful responses *)

Done(c) == Resolved(c) \/ Rejected(c)
Started(c) == call[c].pc /= "idle"
NonOkBusinessCodes == {Some(201), Some(401), Some(500)}

\* C12: a resolved call returns exactly the body of the successful response
\* it received: Status.Code and every other field are those of the raw
\* response, for every business code.
C12_BodyRoundTrip ==
    \A c \in CallIds :
        Resolved(c) =>
            /\ LastAnswer(c).ok
            /\ call[c].result.body.Status = LastAnswer(c).body.Status
            /\ call[c].result.body = LastAnswer(c).body

C12_Witness ==
    \E c \in CallIds :
        /\ Resolved(c)
        /\ Attempts(c) = 2
        /\ LastAnswer(c).body.Status = Some(201)
        /\ call[c].result.body = EnvelopeBody(201)

\* C13: a successful HTTP response whose body carries business status 201,
\* 401 or 500 ends the call as resolved: it is the call's last answer, no
\* attempt follows it and no backoff delay is taken for it.
C13_BusinessStatusIsNotFailure ==
    \A c \in CallIds :
        \A i \in 1..Len(Answers(c)) :
            (Answers(c)[i].ok /\ Answers(c)[i].body.Status \in NonOkBusinessCodes) =>
                /\ i = Len(Answers(c))
                /\ Resolved(c)
                /\ call[c].result.kind = "resolved"
                /\ Attempts(c) = i
                /\ Len(call[c].delays) = i - 1

C13_Witness ==
    \E c \in CallIds :
        /\ Resolved(c)
        /\ LastAnswer(c).body.Status = Some(500)
        /\ Attempts(c) = 1
        /\ call[c].delays = <<>>

\* C14: a call is resolved only if its last attempt received a successful
\* HTTP response, and then with that response's body; a call that is over
\* after a failed last attempt is rejected with an error, and a call whose
\* attempt maxRetries + 1 failed is over and rejected.
C14_NoErrorDropped ==
    \A c \in CallIds :
        /\ Resolved(c) =>
               /\ Len(Answers(c)) >= 1
               /\ LastAnswer(c).ok
               /\ call[c].result.kind = "resolved"
               /\ call[c].result.body = LastAnswer(c).body
        /\ (Len(Answers(c)) >= 1 /\ ~LastAnswer(c).ok) =>
               /\ ~Resolved(c)
               /\ call[c].result.kind /= "resolved"
               /\ (Len(Answers(c)) = MaxRetries + 1) =>
                      /\ Rejected(c)
                      /\ call[c].result.kind = "rejected"
                      /\ call[c].result.error.message = LastAnswer(c).message

C14_Witness ==
    \E c \in CallIds :
        /\ Rejected(c)
        /\ ~LastAnswer(c).hasResponse
        /\ Answers(c)[1].status = 500
        /\ call[c].result.error.message = "Network Error"

----------------------------------------------------------------------------
(* Concurrent calls *)

OwnFailures(c) == Cardinality({i \in 1..Len(Answers(c)) : ~Answers(c)[i].ok})

\* what a call's own answers entitle it to
OwnState(c) ==
    /\ Attempts(c) <= MaxRetries + 1
    /\ Started(c) =>
           /\ call[c].cfg.retryCount =
                  Some(IF Rejected(c) THEN OwnFailures(c) - 1 ELSE OwnFailures(c))
           /\ Len(call[c].delays) = call[c].cfg.retryCount[1]
           /\ Attempts(c) =
                  (IF call[c].pc = "backoff" THEN OwnFailures(c) ELSE Len(Answers(c)))
                  + (IF call[c].pc = "sending" THEN 1 ELSE 0)
    /\ Rejected(c) <=> (OwnFailures(c) = MaxRetries + 1)
    /\ Resolved(c) <=> (Len(Answers(c)) >= 1 /\ LastAnswer(c).ok)

\* a step of one call leaves every other call as it was
OneCallPerStep ==
    \A c, d \in CallIds : (c /= d /\ call'[c] /= call[c]) => call'[d] = call[d]

\* C15: concurrent calls on one client are independent: in every
\* interleaving each call has made at most maxRetries + 1 attempts and its
\* retry counter, delays, attempts and outcome are those its own answers
\* give, and no step of one call changes anything of another call.
C15_IndependentCalls ==
    /\ [](\A c \in CallIds : OwnState(c))
    /\ [][OneCallPerStep]_vars

C15_Witness ==
    /\ call[1].pc = "backoff"
    /\ Len(call[1].delays) = 2
    /\ Rejected(2)
    /\ Attempts(2) = MaxRetries + 1
    /\ Attempts(2) >= 2

\* C16: with every attempt eventually answered and every backoff timer
\* eventually fired, a call that was issued eventually is resolved or
\* rejected.
C16_EventuallyDone ==
    \A c \in CallIds : Started(c) ~> Done(c)

C16_Witness ==
    \E c \in CallIds :
        /\ Rejected(c)
        /\ Attempts(c) = 4
        /\ Len(call[c].delays) = 3

\* C17: once a call is resolved or rejected, nothing of it changes any more:
\* no attempt, no delay, no change of outcome.
C17_TerminalStatesStay ==
    [][\A c \in CallIds : Done(c) => call'[c] = call[c]]_vars

C17_Witness ==
    /\ Rejected(1)
    /\ call[2].pc = "sending"
    /\ Attempts(2) = 3

----------------------------------------------------------------------------
(* The requests sent *)

\* C18: every attempt of a call has the endpoint path, method and payload of
\* its first attempt, and attempt i carries the attempt counter i - 1.
C18_IdenticalReissue ==
    \A c \in CallIds :
        \A i \in 1..Attempts(c) :
            /\ call[c].sent[i].url = call[c].sent[1].url
            /\ call[c].sent[i].method = call[c].sent[1].method
            /\ call[c].sent[i].data = call[c].sent[1].data
            /\ call[c].sent[i].params = call[c].sent[1].params
            /\ call[c].sent[i].retryCount = Some(i - 1)
            /\ call[c].sent[i].url = "/" \o call[c].args.endpoint
            /\ call[c].sent[i].method = call[c].args.method

C18_Witness ==
    \E c \in CallIds :
        /\ Attempts(c) = 3
        /\ call[c].args.method = "POST"
        /\ call[c].sent[3].data = Some({"CheckIn"})

\* C19: two calls that differ only in method and have received the same
\* answers have the same retry counter and delays, are over or not alike
\* with the same outcome, and have issued the same number of attempts when
\* they are at the same position.
C19_MethodUniform ==
    \A c, d \in CallIds :
        (/\ Started(c) /\ Started(d)
         /\ call[c].args.method /= call[d].args.method
         /\ call[c].args.endpoint = call[d].args.endpoint
         /\ call[c].args.data = call[d].args.data
         /\ Answers(c) = Answers(d))
        =>
        /\ call[c].cfg.retryCount = call[d].cfg.retryCount
        /\ call[c].delays = call[d].delays
        /\ Done(c) <=> Done(d)
        /\ call[c].result = call[d].result
        /\ (call[c].pc = call[d].pc) => Attempts(c) = Attempts(d)

C19_Witness ==
    /\ call[1].args.method = "GET"
    /\ call[2].args.method = "POST"
    /\ Answers(1) = Answers(2)
    /\ Rejected(1) /\ Rejected(2)
    /\ Attempts(1) = 3

\* C20: for POST the payload, also an empty one, is the request body and
\* there are no query parameters; for GET there is no body, and the payload
\* is the query parameters unless it is empty, when there are none.
C20_PayloadPlacement ==
    \A c \in CallIds :
        Started(c) =>
            LET a == call[c].args
                first == call[c].sent[1]
            IN /\ a.method = "POST" =>
                      (first.data = Some(a.data) /\ first.params = None)
               /\ a.method = "GET" =>
                      /\ first.data = None
                      /\ first.params = (IF a.data = {} THEN None ELSE Some(a.data))

C20_Witness ==
    \E c \in CallIds :
        /\ call[c].args.method = "GET"
        /\ call[c].args.data = {"CheckIn"}
        /\ call[c].sent[1].params = Some({"CheckIn"})
        /\ call[c].sent[1].data = None

----------------------------------------------------------------------------
(* Configuration *)

\* C21: a supplied timeout or retries (any non-negative integer) is the
\* value the client uses and the default is used only when none is
\* supplied; a supplied username or password is used rather than the
\* environment's.
C21_SuppliedValuesUsed ==
    /\ config.retries = (IF supplied.retries = None THEN 3 ELSE supplied.retries[1])
    /\ config.timeout = (IF supplied.timeout = None THEN 30000 ELSE supplied.timeout[1])
    /\ supplied.username /= None => config.username = supplied.username[1]
    /\ supplied.password /= None => config.password = supplied.password[1]

\* C22: a client constructed without a config object takes base URL,
\* username, password, timeout and retry count from TBO_BASE_URL,
\* TBO_USERNAME, TBO_PASSWORD, TBO_TIMEOUT and TBO_RETRIES whenever the
\* variable is set.
C22_EnvironmentUsed ==
    supplied = EmptyConfig =>
        /\ env.TBO_BASE_URL /= None => config.baseURL = env.TBO_BASE_URL[1]
        /\ env.TBO_USERNAME /= None => config.username = env.TBO_USERNAME[1]
        /\ env.TBO_PASSWORD /= None => config.password = env.TBO_PASSWORD[1]
        /\ env.TBO_TIMEOUT /= None => config.timeout = env.TBO_TIMEOUT[1]
        /\ env.TBO_RETRIES /= None => config.retries = env.TBO_RETRIES[1]

----------------------------------------------------------------------------
(* testConnection *)

TestedEndpoints == {"CountryList", "HotelSearch"}

\* the call of makeRequest behind an endpoint entry of testConnection
TestedCall(e) == call["testConnection." \o e]

Threw(cl) == cl.result.kind = "rejected"

\* C23: when testConnection has returned, connected is true exactly when
\* neither the CountryList call nor the HotelSearch call threw.
C23_ConnectedReflectsAllEndpoints ==
    task.testConnection.pc = "returned" =>
        (task.testConnection.results.connected <=>
            \A e \in TestedEndpoints : ~Threw(TestedCall(e)))

\* C24: the result of testConnection has an entry for CountryList and for
\* HotelSearch, the entry of an endpoint is true iff its call returned
\* Status.Code 200, and errors holds exactly one entry, in endpoint order,
\* for each endpoint whose entry is false and none for the others; until it
\* returns, testConnection holds entries only for the calls that have settled.
C24_ResultSelfConsistent ==
    LET out == task.testConnection.results
        settledCalls == {e \in TestedEndpoints : TestedCall(e).pc \in {"resolved", "rejected"}}
        failed == {e \in DOMAIN out.endpoints : ~out.endpoints[e]}
        Prefix(e) == e \o ": "
        Reason(e) == IF Threw(TestedCall(e)) THEN TestedCall(e).result.error.message
                     ELSE Description(TestedCall(e).result.body.Status[1])
    IN /\ DOMAIN out.endpoints = settledCalls
       /\ task.testConnection.pc = "returned" => DOMAIN out.endpoints = TestedEndpoints
       /\ \A e \in DOMAIN out.endpoints :
              out.endpoints[e] <=>
                  (~Threw(TestedCall(e)) /\ TestedCall(e).result.body.Status = Some(200))
       /\ Len(out.errors) = Cardinality(failed)
       /\ \A e \in failed :
              Cardinality({i \in 1..Len(out.errors) :
                               out.errors[i] = Prefix(e) \o Reason(e)}) = 1
       /\ (failed = TestedEndpoints) =>
              out.errors[1] = Prefix("CountryList") \o Reason("CountryList")

\* testConnection has returned with two errors, one of a call that returned
\* a non-200 status after a retry and one of a call that threw, while
\* getLocationData was still waiting for an answer
C24_Witness ==
    /\ task.testConnection.pc = "returned"
    /\ ~Threw(TestedCall("CountryList"))
    /\ TestedCall("CountryList").result.body.Status = Some(401)
    /\ Len(TestedCall("CountryList").sent) = 2
    /\ Threw(TestedCall("HotelSearch"))
    /\ Len(task.testConnection.results.errors) = 2
    /\ ~task.testConnection.results.endpoints["CountryList"]
    /\ task.getLocationData.pc = "CityList"

----------------------------------------------------------------------------
(* Pre-book helpers *)

\* C25: validatePreBookResponse gives isValid = true iff the response has a
\* Status with Code 200, HotelBookingDetails with a non-empty BookingCode and
\* a Price with a non-zero OfferedPrice; otherwise its message names the first
\* check that fails, in the order missing status, non-200 status, missing
\* booking code, missing pricing.
C25_ValidIffAllChecksPass ==
    fn.op = "validatePreBookResponse" =>
        LET r == fn.input
            hasStatus == r.Status /= None
            is200 == hasStatus /\ r.Status[1].Code = 200
            hasDetails == r.HotelBookingDetails /= None
            hasCode == /\ hasDetails
                       /\ r.HotelBookingDetails[1].BookingCode /= None
                       /\ r.HotelBookingDetails[1].BookingCode[1] /= ""
            hasPrice == /\ hasDetails
                        /\ r.HotelBookingDetails[1].Price /= None
                        /\ r.HotelBookingDetails[1].Price[1].OfferedPrice /= 0
        IN /\ fn.output.isValid <=> (is200 /\ hasCode /\ hasPrice)
           /\ fn.output.message =
                  (IF ~hasStatus THEN "No status information in response"
                   ELSE IF ~is200 THEN "Pre-book failed: " \o r.Status[1].Description
                   ELSE IF ~hasCode THEN "No booking code in response"
                   ELSE IF ~hasPrice THEN "No pricing information available"
                   ELSE "Pre-book successful")

C25_Witness ==
    /\ fn.op = "validatePreBookResponse"
    /\ fn.input.Status /= None /\ fn.input.Status[1].Code = 200
    /\ fn.input.HotelBookingDetails /= None
    /\ fn.input.HotelBookingDetails[1].BookingCode = Some("BC")
    /\ fn.input.HotelBookingDetails[1].Price /= None
    /\ fn.input.HotelBookingDetails[1].Price[1].OfferedPrice = 0
    /\ fn.output = [isValid |-> FALSE, message |-> "No pricing information available"]

HasPolicies(r) ==
    /\ r.HotelBookingDetails /= None
    /\ r.HotelBookingDetails[1].CancellationPolicies /= None

FirstPolicyFree(r) ==
    LET policies == r.HotelBookingDetails[1].CancellationPolicies[1]
    IN /\ policies.CancelPolicies /= None
       /\ policies.CancelPolicies[1] /= <<>>
       /\ Head(policies.CancelPolicies[1]).CancellationCharge = 0

\* C26 (as stated): isRefundable is true only if CancellationPolicies is
\* present with NonRefundable = false, and false whenever NonRefundable is
\* true or the policies are absent.
C26_RefundableByFlagOnly ==
    fn.op = "extractPreBookInfo" =>
        (fn.output.isRefundable <=>
            (/\ HasPolicies(fn.input)
             /\ ~fn.input.HotelBookingDetails[1].CancellationPolicies[1].NonRefundable))

\* C26 (amended): isRefundable is true exactly when CancellationPolicies is
\* present and either NonRefundable is false or the first entry of
\* CancelPolicies has CancellationCharge 0; it is false when the policies are
\* absent.
C26_RefundableByFlagOrFreeFirstPolicy ==
    fn.op = "extractPreBookInfo" =>
        (fn.output.isRefundable <=>
            (/\ HasPolicies(fn.input)
             /\ \/ ~fn.input.HotelBookingDetails[1].CancellationPolicies[1].NonRefundable
                \/ FirstPolicyFree(fn.input)))

C26_Witness ==
    /\ fn.op = "extractPreBookInfo"
    /\ HasPolicies(fn.input)
    /\ fn.input.HotelBookingDetails[1].CancellationPolicies[1].NonRefundable
    /\ FirstPolicyFree(fn.input)
    /\ fn.output.isRefundable

----------------------------------------------------------------------------
(* Search helpers *)

\* the rooms of a response, in hotel then room order
RECURSIVE HotelsRooms(_)
HotelsRooms(hotels) ==
    IF hotels = <<>> THEN <<>>
    ELSE (IF Head(hotels).Rooms /= None THEN Head(hotels).Rooms[1] ELSE <<>>)
         \o HotelsRooms(Tail(hotels))

AllRooms(response) ==
    IF response.HotelResult /= None THEN HotelsRooms(response.HotelResult[1]) ELSE <<>>

HasBookingCode(room) == room.BookingCode /= ""

BookableRooms(response) == SelectSeq(AllRooms(response), HasBookingCode)

Smallest(S) == CHOOSE x \in S : \A y \in S : x <= y
Largest(S) == CHOOSE x \in S : \A y \in S : x >= y

\* C27: extractBookingCodes returns the non-empty BookingCode of every room,
\* in hotel then room order; its length equals the totalBookingCodes of
\* getSearchSummary on the same response; both are empty / 0 when HotelResult
\* is absent.
C27_BookingCodesInOrder ==
    fn.op = "extractBookingCodes" =>
        LET bookable == BookableRooms(fn.input)
        IN /\ fn.output = [i \in 1..Len(bookable) |-> bookable[i].BookingCode]
           /\ \A i \in 1..Len(fn.output) : fn.output[i] /= ""
           /\ Len(fn.output) = getSearchSummary(fn.input).totalBookingCodes
           /\ fn.input.HotelResult = None =>
                  /\ fn.output = <<>>
                  /\ getSearchSummary(fn.input).totalBookingCodes = 0

C27_Witness ==
    /\ fn.op = "extractBookingCodes"
    /\ fn.input.HotelResult /= None
    /\ Len(fn.input.HotelResult[1]) = 2
    /\ Len(AllRooms(fn.input)) = 4
    /\ fn.output = <<"C", "A">>
    /\ getSearchSummary(fn.input).totalBookingCodes = 2

\* C28 (as stated): priceRange is null iff no room has a booking code; when
\* non-null, min <= max and min / max are the smallest / largest TotalFare
\* among the rooms that have a booking code; totalRooms is the sum of the
\* Rooms lengths and totalBookingCodes <= totalRooms.
C28_PriceRangeOfBookableRooms ==
    fn.op = "getSearchSummary" =>
        LET bookable == BookableRooms(fn.input)
            fares == {bookable[i].TotalFare : i \in 1..Len(bookable)}
            out == fn.output
        IN /\ out.priceRange = None <=> bookable = <<>>
           /\ out.priceRange /= None =>
                  /\ out.priceRange[1].min <= out.priceRange[1].max
                  /\ out.priceRange[1].min = Smallest(fares)
                  /\ out.priceRange[1].max = Largest(fares)
           /\ out.totalRooms = Len(AllRooms(fn.input))
           /\ out.totalBookingCodes <= out.totalRooms

\* C28 (amended): priceRange is null iff no room has a booking code; when
\* non-null, min <= max and min / max are the smallest / largest non-zero
\* TotalFare among all rooms of the response, with or without a booking code
\* (both 0 when no room has a non-zero TotalFare); totalRooms is the sum of
\* the Rooms lengths and totalBookingCodes <= totalRooms.
C28_PriceRangeOfAllRooms ==
    fn.op = "getSearchSummary" =>
        LET rooms == AllRooms(fn.input)
            fares == {rooms[i].TotalFare : i \in 1..Len(rooms)} \ {0}
            out == fn.output
        IN /\ out.priceRange = None <=> BookableRooms(fn.input) = <<>>
           /\ out.priceRange /= None =>
                  /\ out.priceRange[1].min <= out.priceRange[1].max
                  /\ out.priceRange[1].min = (IF fares = {} THEN 0 ELSE Smallest(fares))
                  /\ out.priceRange[1].max = (IF fares = {} THEN 0 ELSE Largest(fares))
           /\ out.totalRooms = Len(AllRooms(fn.input))
           /\ out.totalBookingCodes <= out.totalRooms

C28_Witness ==
    /\ fn.op = "getSearchSummary"
    /\ fn.output.priceRange /= None
    /\ fn.output.priceRange[1].min = 50
    /\ fn.output.priceRange[1].max = 200
    /\ fn.output.totalBookingCodes = 1
    /\ fn.output.totalRooms = 2

----------------------------------------------------------------------------
(* Location helper *)

CountriesCall == call["getLocationData.CountryList"]
CitiesCall == call["getLocationData.CityList"]

\* the country list was returned and has an entry with the requested code
ListHasCountry ==
    /\ CountriesCall.pc = "resolved"
    /\ \E i \in 1..Len(extractCountries(CountriesCall.result.body)) :
           extractCountries(CountriesCall.result.body)[i].Code =
               task.getLocationData.countryCode

\* C29 (as stated): when the country list succeeds and contains the code but
\* the city list fails, the result still carries that country, with empty
\* cities; country is null only when the country list failed or lacks the
\* code.
C29_CountryKeptWhenCitiesFail ==
    task.getLocationData.pc = "returned" =>
        LET out == task.getLocationData.returned
        IN /\ (ListHasCountry /\ Threw(CitiesCall)) =>
                  /\ out.country /= None
                  /\ out.country[1].Code = task.getLocationData.countryCode
                  /\ out.cities = <<>>
           /\ out.country = None => ~ListHasCountry

\* C29 (amended): when either the country-list call or the city-list call
\* fails the result is { country: null, cities: [] }; when both succeed,
\* country is the first entry of the list with that code, or null when the
\* list lacks it, and cities is the returned city list (empty when absent).
C29_AllOrNothing ==
    task.getLocationData.pc = "returned" =>
        LET out == task.getLocationData.returned
            countries == extractCountries(CountriesCall.result.body)
            matches == {i \in 1..Len(countries) :
                            countries[i].Code = task.getLocationData.countryCode}
        IN IF Threw(CountriesCall) \/ Threw(CitiesCall)
           THEN out = [country |-> None, cities |-> <<>>]
           ELSE /\ CitiesCall.pc = "resolved"
                /\ out.cities = extractCities(CitiesCall.result.body)
                /\ out.country =
                       (IF matches = {} THEN None ELSE Some(countries[Smallest(matches)]))

\* the country was found, the city list failed after its retry, and the
\* result carries no country; testConnection was in flight meanwhile
C29_Witness ==
    /\ task.getLocationData.pc = "returned"
    /\ ListHasCountry
    /\ Threw(CitiesCall)
    /\ Len(CitiesCall.sent) = 2
    /\ task.getLocationData.returned = [country |-> None, cities |-> <<>>]
    /\ task.testConnection.pc = "HotelSearch"

====
